---- MODULE Spec2Model ----
(***************************************************************************)
(* Model of pylog: the line-processing chain of pylog/cli.py (map_lines,   *)
(* new_mapper_chain, Mapper.apply_symtable) and the event-mapper           *)
(* combinators of pylog/logger.py (Mapper.next, +, |).                     *)
(*                                                                         *)
(* Strings are sequences of one-character strings.  A Python value is a    *)
(* record [t, s, n]: t is the type tag, s the characters of a str, n the   *)
(* number of an int (or 0/1 of a bool).                                    *)
(***************************************************************************)
EXTENDS Integers, Sequences, FiniteSets, TLC

\* ------------------------------------------------------------------ bounds
MaxLines == 2
MaxRules == 2
MaxRuns == 2
MaxStages == 3
MaxKwargs == 2

\* ------------------------------------------------------------------ values
PyStr(s) == [t |-> "str", s |-> s, n |-> 0]
PyInt(n) == [t |-> "int", s |-> <<>>, n |-> n]
PyBool(b) == [t |-> "bool", s |-> <<>>, n |-> IF b THEN 1 ELSE 0]
PyNone == [t |-> "none", s |-> <<>>, n |-> 0]
\* any other object (a function, a module), told apart by its name
PyObj(name) == [t |-> "obj", s |-> <<name>>, n |-> 0]

PyTrue == PyBool(TRUE)
PyFalse == PyBool(FALSE)

Digit(d) == <<"0", "1", "2", "3", "4", "5", "6", "7", "8", "9">>[d + 1]

RECURSIVE Digits(_)
Digits(n) == IF n < 10 THEN <<Digit(n)>> ELSE Digits(n \div 10) \o <<Digit(n % 10)>>

\* str(v), as print() and f-strings apply it
str(v) ==
    CASE v.t = "str" -> v.s
      [] v.t = "int" -> Digits(v.n)
      [] v.t = "bool" -> IF v.n = 1 THEN <<"T", "r", "u", "e">> ELSE <<"F", "a", "l", "s", "e">>
      [] v.t = "none" -> <<"N", "o", "n", "e">>
      [] OTHER -> <<"<">> \o v.s \o <<">">>

Whitespace == {" ", "\t", "\n", "\r"}

\* str.rstrip() without argument: drops every trailing whitespace character
RECURSIVE rstrip(_)
rstrip(s) ==
    IF s # <<>> /\ s[Len(s)] \in Whitespace THEN rstrip(SubSeq(s, 1, Len(s) - 1)) ELSE s


\* ------------------------------------------------- inputs of pylog.cli runs
\* lines as the input iterator yields them (sys.stdin keeps the terminator)
LineSet == {<<"a", " ", "\n">>, <<"b", "\n">>, <<"\n">>}

\* per-line rule expressions (bodies of `lambda x: ...`)
RuleSet ==
    { "f'm{x}'",
      "f'm{x}' if x != 'a' else None",
      "x != 'a'",
      "f'm{x}' if x != 'a' else _raise(Exception(x))",
      "len(x)",
      "x + 1",
      "f'{cnt(len(x))} {x}'" }

RuleLists == UNION {[1..k -> RuleSet] : k \in 0..MaxRules}

\* initialization statement lists
InitLists ==
    { <<>>,
      <<"c = 0", "def cnt(delta): global c; c += delta; return c">>,
      <<"sys = 0">>,
      <<"c = 0", "sys = 0">> }

\* deferred expressions (bodies of `lambda: ...`); NoLast is last_lambda=None
NoLast == "<absent>"
LastSet == {NoLast, "f'n={c}'", "c", "f'n={C}'", "None"}

\* names bound in the module namespace of pylog.cli before any run
ModuleGlobals == [k \in {"_raise", "sys"} |-> PyObj(k)]

\* ------------------------------------------------------- rule evaluation
Ret(v, g) == [ok |-> TRUE, val |-> v, cause |-> "", g |-> g]
Raise(cause, g) == [ok |-> FALSE, val |-> PyNone, cause |-> cause, g |-> g]

\* f"m{x}"
Mapped(x) == PyStr(<<"m">> \o str(x))

\* the body of cnt(delta) as the init statement defines it
cnt(delta, x, g) ==
    IF "c" \notin DOMAIN g THEN Raise("NameError", g)
    ELSE IF g["c"].t # "int" THEN Raise("TypeError", g)
    ELSE LET c == g["c"].n + delta
         IN Ret(PyStr(Digits(c) \o <<" ">> \o str(x)), [g EXCEPT !["c"] = PyInt(c)])

\* the value of `lambda x: <rule>` called with x in the namespace g
EvalRule(rule, x, g) ==
    CASE rule = "f'm{x}'" -> Ret(Mapped(x), g)
      [] rule = "f'm{x}' if x != 'a' else None" ->
            IF x # PyStr(<<"a">>) THEN Ret(Mapped(x), g) ELSE Ret(PyNone, g)
      [] rule = "x != 'a'" -> Ret(PyBool(x # PyStr(<<"a">>)), g)
      [] rule = "f'm{x}' if x != 'a' else _raise(Exception(x))" ->
            IF x # PyStr(<<"a">>) THEN Ret(Mapped(x), g)
            ELSE IF "_raise" \notin DOMAIN g THEN Raise("NameError", g)
            ELSE Raise("Exception", g)
      [] rule = "len(x)" ->
            IF x.t = "str" THEN Ret(PyInt(Len(x.s)), g) ELSE Raise("TypeError", g)
      [] rule = "x + 1" ->
            IF x.t = "int" THEN Ret(PyInt(x.n + 1), g) ELSE Raise("TypeError", g)
      [] rule = "f'{cnt(len(x))} {x}'" ->
            IF "cnt" \notin DOMAIN g THEN Raise("NameError", g)
            ELSE IF x.t # "str" THEN Raise("TypeError", g)
            ELSE cnt(Len(x.s), x, g)

\* faulty variant: the deferred expression reads c as the init statement left it
EvalLast_InitValue(last, g) ==
    CASE last = "f'n={c}'" ->
            IF "c" \in DOMAIN g THEN Ret(PyStr(<<"n", "=">> \o str(PyInt(0))), g)
            ELSE Raise("NameError", g)
      [] last = "c" -> IF "c" \in DOMAIN g THEN Ret(PyInt(0), g) ELSE Raise("NameError", g)
      [] last = "f'n={C}'" -> Raise("NameError", g)
      [] OTHER -> Ret(PyNone, g)

\* the value of `lambda: <last>` in the namespace g
EvalLast(last, g) ==
    CASE last = "f'n={c}'" ->
            IF "c" \in DOMAIN g THEN Ret(PyStr(<<"n", "=">> \o str(g["c"])), g)
            ELSE Raise("NameError", g)
      [] last = "c" -> IF "c" \in DOMAIN g THEN Ret(g["c"], g) ELSE Raise("NameError", g)
      [] last = "f'n={C}'" -> Raise("NameError", g)
      [] OTHER -> Ret(PyNone, g)

\* exec(init, globals(), local_table): the binding one statement adds
InitName(init) ==
    CASE init = "c = 0" -> "c"
      [] init = "sys = 0" -> "sys"
      [] OTHER -> "cnt"

ExecInit(init, table) ==
    LET name == InitName(init)
        val == IF name = "cnt" THEN PyObj("cnt") ELSE PyInt(0)
    IN [k \in DOMAIN table \cup {name} |-> IF k = name THEN val ELSE table[k]]

RECURSIVE ExecAll(_, _)
ExecAll(inits, table) ==
    IF inits = <<>> THEN table ELSE ExecAll(Tail(inits), ExecInit(Head(inits), table))

EmptyTable == [k \in {} |-> PyNone]

\* faulty variant: the rules are numbered from 1
RuleLabel_FromOne(i) == <<"lambda[">> \o Digits(i + 1) \o <<"]">>

\* labels given to __watch
RuleLabel(i) == <<"lambda[">> \o Digits(i) \o <<"]">>
LastLabel == <<"lambda[last]">>

\* __watch: Exception(f"{label}({args}, {kwargs}) caused {e}")
Watched(label, args, cause) == [label |-> label, args |-> args, cause |-> cause]

\* print(result, file=output)
Printed(v) == str(v) \o <<"\n">>

\* ---------------------------------------------------------------- state
VARIABLES
    lambda_list,    \* map_lines argument: the per-line rule expressions
    init_list,      \* map_lines argument: the initialization statements
    last_lambda,    \* map_lines argument: the deferred expression or NoLast
    globals,        \* globals() of pylog.cli: name -> value
    symtable,       \* Mapper.symtable (local_table of new_mapper_chain)
    added_keys,     \* added_keys of apply_symtable
    pc,             \* position of the run inside map_lines
    lines,          \* the lines the input iterator has yielded in this run
    x,              \* the x of new_mapper_chain.inner for the current line
    i,              \* index of the next rule of the chain for the current line
    output,         \* one entry per print to output: the text, and the number of the
                    \* input line it was printed for (0: the deferred rule)
    errors,         \* one entry per call of on_exception: the exception, and the
                    \* number of the input line (0: the deferred rule)
    evals,          \* one entry per rule evaluation of this run: the number of the
                    \* line, the rule index, the argument, and what the rule did
    last_calls,     \* how often the deferred rule has been evaluated
    exc,            \* the exception that left map_lines, "" if none
    run,            \* number of the current map_lines call
    globals_before, \* globals() when the current run was entered
    mapper,         \* logger: the composed Mapper
    stages,         \* logger: the functions m was composed from, in order, each
                    \* with the ignore_result it was appended with
    event,          \* logger: the event given to the last call
    result,         \* logger: what the last call returned
    calls,          \* logger: the stage invocations of the last call
    put_in,         \* logger: the arguments of the last Logger.put
    put_out,        \* logger: what the last Logger.put returned or raised
    regrouped,      \* logger: the three stages composed as a op (b op c)
    regrouped_result, \* logger: what the last call of regrouped returned
    regrouped_calls,  \* logger: the stage invocations of that call
    new_in,         \* Event: the arguments Event.new was called with
    upd_in,         \* Event: the arguments of the last update
    updated         \* Event: what the last update returned

cli_vars == <<lambda_list, init_list, last_lambda, globals, symtable, added_keys, pc,
              lines, x, i, output, errors, evals, last_calls, exc, run, globals_before>>
put_vars == <<put_in, put_out>>
regrouped_vars == <<regrouped, regrouped_result, regrouped_calls>>
event_vars == <<new_in, upd_in, updated>>
logger_vars == <<mapper, stages, event, result, calls, put_vars, regrouped_vars, event_vars>>
vars == <<cli_vars, logger_vars>>

args_vars == <<lambda_list, init_list, last_lambda>>

\* per-run state at the entry of map_lines
Entered ==
    /\ symtable = EmptyTable
    /\ added_keys = {}
    /\ pc = "new_mapper_chain"
    /\ lines = <<>>
    /\ x = PyNone
    /\ i = 0
    /\ output = <<>>
    /\ errors = <<>>
    /\ evals = <<>>
    /\ last_calls = 0
    /\ exc = ""

\* ----------------------------------------------------------- map_lines
\* new_mapper_chain: the init statements are executed into local_table
NewMapperChain ==
    /\ pc = "new_mapper_chain"
    /\ symtable' = ExecAll(init_list, EmptyTable)
    /\ pc' = "apply_symtable"
    /\ UNCHANGED <<args_vars, globals, added_keys, lines, x, i, output, errors, evals,
                   last_calls, exc, run, globals_before, logger_vars>>

\* faulty variant: no name is ever found to collide
UpdatedKeys_None(table, g) == {}

\* the names apply_symtable refuses to overwrite
UpdatedKeys(table, g) == DOMAIN table \cap DOMAIN g

\* for k, v in self.symtable.items(): globals()[k] = v
Installed(table, g) ==
    [k \in DOMAIN g \cup DOMAIN table |-> IF k \in DOMAIN table THEN table[k] ELSE g[k]]

\* faulty variant: the installed names are left in place
Reverted_Nothing(keys, g) == g

\* for k in added_keys: del globals()[k]
Reverted(keys, g) == [k \in DOMAIN g \ keys |-> g[k]]

\* apply_symtable up to its yield
ApplySymtableEnter ==
    /\ pc = "apply_symtable"
    /\ IF UpdatedKeys(symtable, globals) # {}
       THEN /\ pc' = "raised"
            /\ exc' = "cannot update global symtable keys"
            /\ UNCHANGED <<globals, added_keys>>
       ELSE /\ added_keys' = DOMAIN symtable \ DOMAIN globals
            /\ globals' = Installed(symtable, globals)
            /\ pc' = "for"
            /\ exc' = exc
    /\ UNCHANGED <<args_vars, symtable, lines, x, i, output, errors, evals,
                   last_calls, run, globals_before, logger_vars>>

\* for __line in __lines: the iterator yields a line; __f(__line.rstrip()) begins
ReadLine ==
    /\ pc = "for"
    /\ Len(lines) < MaxLines
    /\ \E line \in LineSet :
        /\ lines' = Append(lines, line)
        /\ x' = PyStr(rstrip(line))
    /\ i' = 0
    /\ pc' = "inner"
    /\ UNCHANGED <<args_vars, globals, symtable, added_keys, output, errors, evals,
                   last_calls, exc, run, globals_before, logger_vars>>

\* for __line in __lines: the iterator is exhausted
EndOfLines ==
    /\ pc = "for"
    /\ pc' = "last"
    /\ UNCHANGED <<args_vars, globals, symtable, added_keys, lines, x, i, output, errors,
                   evals, last_calls, exc, run, globals_before, logger_vars>>

\* for __line in __lines: the iterator raises; the exception leaves the with block
LinesRaise ==
    /\ pc = "for"
    /\ pc' = "raised"
    /\ exc' = "lines"
    /\ UNCHANGED <<args_vars, globals, symtable, added_keys, lines, x, i, output, errors,
                   evals, last_calls, run, globals_before, logger_vars>>

\* faulty variant: no `case True`, a True result replaces x like any other value
Matched_NoTrueCase(r, cur) ==
    CASE r = PyNone \/ r = PyFalse -> [stop |-> TRUE, x |-> cur]
      [] OTHER -> [stop |-> FALSE, x |-> r]

\* faulty variant: the result is converted with str() before it replaces x
Matched_Str(r, cur) ==
    CASE r = PyNone \/ r = PyFalse -> [stop |-> TRUE, x |-> cur]
      [] r = PyTrue -> [stop |-> FALSE, x |-> cur]
      [] OTHER -> [stop |-> FALSE, x |-> PyStr(str(r))]

\* how inner goes on after f(x) returned r: the match statement
Matched(r, cur) ==
    CASE r = PyNone \/ r = PyFalse -> [stop |-> TRUE, x |-> cur]
      [] r = PyTrue -> [stop |-> FALSE, x |-> cur]
      [] OTHER -> [stop |-> FALSE, x |-> r]

\* faulty variant: the except clause does not return, the next rule goes on with x
InnerStep_NoReturn ==
    /\ pc = "inner"
    /\ i < Len(lambda_list)
    /\ LET r == EvalRule(lambda_list[i + 1], x, globals)
           m == Matched(r.val, x)
       IN /\ evals' = Append(evals, [line |-> Len(lines), rule |-> i, arg |-> x,
                                     ok |-> r.ok, val |-> r.val])
          /\ globals' = r.g
          /\ IF r.ok
             THEN /\ x' = m.x
                  /\ i' = IF m.stop THEN i ELSE i + 1
                  /\ pc' = IF m.stop THEN "for" ELSE "inner"
                  /\ UNCHANGED <<errors, exc>>
             ELSE /\ errors' = Append(errors, [line |-> Len(lines),
                                             exc |-> Watched(RuleLabel(i), <<x>>, r.cause)])
                  /\ x' = x
                  /\ i' = i + 1
                  /\ \E sink_raises \in BOOLEAN :
                        IF sink_raises
                        THEN pc' = "raised" /\ exc' = "on_exception"
                        ELSE pc' = "inner" /\ exc' = exc
    /\ UNCHANGED <<args_vars, symtable, added_keys, lines, output, last_calls, run,
                   globals_before, logger_vars>>

\* one iteration of `for f in functions` in inner; on_exception may itself raise
InnerStep ==
    /\ pc = "inner"
    /\ i < Len(lambda_list)
    /\ LET r == EvalRule(lambda_list[i + 1], x, globals)
           m == Matched(r.val, x)
       IN /\ evals' = Append(evals, [line |-> Len(lines), rule |-> i, arg |-> x,
                                     ok |-> r.ok, val |-> r.val])
          /\ globals' = r.g
          /\ IF r.ok
             THEN /\ x' = m.x
                  /\ i' = IF m.stop THEN i ELSE i + 1
                  /\ pc' = IF m.stop THEN "for" ELSE "inner"
                  /\ UNCHANGED <<errors, exc>>
             ELSE /\ errors' = Append(errors, [line |-> Len(lines),
                                             exc |-> Watched(RuleLabel(i), <<x>>, r.cause)])
                  /\ UNCHANGED <<x, i>>
                  /\ \E sink_raises \in BOOLEAN :
                        IF sink_raises
                        THEN pc' = "raised" /\ exc' = "on_exception"
                        ELSE pc' = "for" /\ exc' = exc
    /\ UNCHANGED <<args_vars, symtable, added_keys, lines, output, last_calls, run,
                   globals_before, logger_vars>>

\* inner returns x after the last rule; __map_lines prints it (the write may raise)
PrintResult ==
    /\ pc = "inner"
    /\ i = Len(lambda_list)
    /\ \E write_raises \in BOOLEAN :
          IF write_raises
          THEN pc' = "raised" /\ exc' = "output" /\ output' = output
          ELSE /\ pc' = "for"
               /\ exc' = exc
               /\ output' = Append(output, [line |-> Len(lines), text |-> Printed(x)])
    /\ UNCHANGED <<args_vars, globals, symtable, added_keys, lines, x, i, errors, evals,
                   last_calls, run, globals_before, logger_vars>>

\* Funcs.last: None stays None, anything else becomes its str
FuncsLast(r) == IF r = PyNone THEN PyNone ELSE PyStr(str(r))

\* the try block after the loop: __f.last(), the print, and the except clause
Last ==
    /\ pc = "last"
    /\ LET r == IF last_lambda = NoLast THEN Ret(PyNone, globals)
                ELSE EvalLast(last_lambda, globals)
       IN /\ last_calls' = IF last_lambda = NoLast THEN last_calls ELSE last_calls + 1
          /\ globals' = r.g
          /\ \E sink_raises \in BOOLEAN, write_raises \in BOOLEAN :
               LET printing == r.ok /\ FuncsLast(r.val) # PyNone
                   caught == ~r.ok \/ (printing /\ write_raises)
                   e == IF ~r.ok THEN Watched(LastLabel, <<>>, r.cause)
                        ELSE Watched(<<"print">>, <<>>, "OSError")
               IN /\ ~caught => ~sink_raises
                  /\ ~printing => ~write_raises
                  /\ output' = IF printing /\ ~write_raises
                               THEN Append(output, [line |-> 0, text |-> Printed(FuncsLast(r.val))])
                               ELSE output
                  /\ errors' = IF caught THEN Append(errors, [line |-> 0, exc |-> e]) ELSE errors
                  /\ IF caught /\ sink_raises
                     THEN pc' = "raised" /\ exc' = "on_exception"
                     ELSE pc' = "exit" /\ exc' = exc
    /\ UNCHANGED <<args_vars, symtable, added_keys, lines, x, i, evals, run,
                   globals_before, logger_vars>>

\* apply_symtable after its yield: the with block was left normally
ApplySymtableExit ==
    /\ pc = "exit"
    /\ globals' = Reverted(added_keys, globals)
    /\ pc' = "returned"
    /\ UNCHANGED <<args_vars, symtable, added_keys, lines, x, i, output, errors, evals,
                   last_calls, exc, run, globals_before, logger_vars>>

\* map_lines is called again with the same arguments
MapLinesAgain ==
    /\ pc \in {"returned", "raised"}
    /\ run < MaxRuns
    /\ run' = run + 1
    /\ globals_before' = globals
    /\ symtable' = EmptyTable
    /\ added_keys' = {}
    /\ pc' = "new_mapper_chain"
    /\ lines' = <<>>
    /\ x' = PyNone
    /\ i' = 0
    /\ output' = <<>>
    /\ errors' = <<>>
    /\ evals' = <<>>
    /\ last_calls' = 0
    /\ exc' = ""
    /\ UNCHANGED <<args_vars, globals, logger_vars>>

\* -------------------------------------------------------- pylog.logger
\* Event(level, fmt, args, kwargs)
Event(level, fmt) == [level |-> level, fmt |-> fmt, args |-> <<>>, kwargs |-> <<>>]
FIRST_EVENT == Event(10, "first event")
SECOND_EVENT == Event(10, "second event")
EventSet == {FIRST_EVENT, SECOND_EVENT}

\* a dict is the sequence of its <<key, value>> items in insertion order
Has(d, k) == \E n \in 1..Len(d) : d[n][1] = k
Get(d, k) == d[CHOOSE n \in 1..Len(d) : d[n][1] = k][2]
Keys(d) == {d[n][1] : n \in 1..Len(d)}

\* the items of d without the key k (what is left after d.pop(k, default))
RECURSIVE Pop(_, _)
Pop(d, k) ==
    IF d = <<>> THEN <<>>
    ELSE IF Head(d)[1] = k THEN Pop(Tail(d), k)
    ELSE <<Head(d)>> \o Pop(Tail(d), k)

\* d | e: the keys of d keep their place and take the value of e, new keys follow
Merge(d, e) ==
    LET old == [n \in 1..Len(d) |-> IF Has(e, d[n][1]) THEN <<d[n][1], Get(e, d[n][1])>> ELSE d[n]]
        RECURSIVE New(_)
        New(r) == IF r = <<>> THEN <<>>
                  ELSE IF Has(d, Head(r)[1]) THEN New(Tail(r))
                  ELSE <<Head(r)>> \o New(Tail(r))
    IN old \o New(e)

\* the order of str keys under sorted()
KeyRank(k) ==
    CASE k = "a" -> 1
      [] k = "fmt" -> 2
      [] k = "key" -> 3
      [] OTHER -> 4

\* faulty variant: the items stay in insertion order
Sorted_Unsorted(d) == d

\* tuple((k, kwargs[k]) for k in sorted(kwargs))
RECURSIVE Sorted(_)
Sorted(d) ==
    IF d = <<>> THEN <<>>
    ELSE LET least == CHOOSE n \in 1..Len(d) : \A q \in 1..Len(d) : KeyRank(d[n][1]) <= KeyRank(d[q][1])
         IN <<d[least]>> \o Sorted(Pop(d, d[least][1]))

\* Event.new
EventNew(level, fmt, args, kwargs) ==
    [level |-> level, fmt |-> fmt, args |-> args, kwargs |-> Sorted(kwargs)]

\* Event.update
EventUpdate(self, args, kwargs) ==
    LET level == IF Has(kwargs, "level") THEN Get(kwargs, "level") ELSE self.level
        fmt == IF Has(kwargs, "fmt") THEN Get(kwargs, "fmt") ELSE self.fmt
        rest == Pop(Pop(kwargs, "level"), "fmt")
    IN EventNew(level, fmt, self.args \o args, Merge(self.kwargs, rest))

\* the dicts of at most n items over the given items
Dicts(items, n) ==
    {d \in UNION {[1..k -> items] : k \in 0..n} :
        \A p, q \in 1..Len(d) : p # q => d[p][1] # d[q][1]}

\* arguments of Event.new and Event.update
LevelSet == {10, 20}
FmtSet == {"msg", "changed {} {key}"}
NewArgsSet == {<<>>, <<"first">>}
UpdateArgsSet == {<<>>, <<"second">>}
KwargItems == {<<"a", 1>>, <<"a", 42>>, <<"key", 1>>, <<"key", 42>>}
UpdateItems == KwargItems \cup {<<"level", 20>>, <<"fmt", "changed {} {key}">>}

\* stage functions (MapperT): the mocks of the tests and the lambdas of the docs
StageSet ==
    { "ret FIRST_EVENT", "ret SECOND_EVENT", "ret None", "raise", "raise ValueError",
      "lambda x: x", "lambda x: x.update(level=20)" }

\* what a stage function does with an event
StageApply(f, ev) ==
    CASE f = "ret FIRST_EVENT" -> [ok |-> TRUE, val |-> FIRST_EVENT, exc |-> ""]
      [] f = "ret SECOND_EVENT" -> [ok |-> TRUE, val |-> SECOND_EVENT, exc |-> ""]
      [] f = "ret None" -> [ok |-> TRUE, val |-> PyNone, exc |-> ""]
      [] f = "raise" -> [ok |-> FALSE, val |-> PyNone, exc |-> "Exception"]
      [] f = "raise ValueError" -> [ok |-> FALSE, val |-> PyNone, exc |-> "ValueError"]
      [] f = "lambda x: x" -> [ok |-> TRUE, val |-> ev, exc |-> ""]
      [] OTHER -> [ok |-> TRUE, val |-> EventUpdate(ev, <<>>, <<<<"level", 20>>>>), exc |-> ""]

\* Mapper(f): a Mapper holding the function f
Fn(f) == [op |-> "fn", f |-> f, sub |-> <<>>, ignore_result |-> FALSE]

\* faulty variant: next always builds inner_ignore
MapperNext_AlwaysIgnore(self, other, ignore_result) ==
    [op |-> "next", f |-> "", sub |-> <<self, other>>, ignore_result |-> TRUE]

\* faulty variant: next always builds inner
MapperNext_NeverIgnore(self, other, ignore_result) ==
    [op |-> "next", f |-> "", sub |-> <<self, other>>, ignore_result |-> FALSE]

\* Mapper.next: a Mapper holding the closure inner / inner_ignore over self.mapper and mapper
MapperNext(self, other, ignore_result) ==
    [op |-> "next", f |-> "", sub |-> <<self, other>>, ignore_result |-> ignore_result]

\* Mapper.__add__ and Mapper.__or__
MapperAdd(self, other) == MapperNext(self, other, FALSE)
MapperOr(self, other) == MapperNext(self, other, TRUE)

\* Mapper.__call__: the result and the invocations made, in order
RECURSIVE MapperCall(_, _)
MapperCall(m, ev) ==
    IF m.op = "fn"
    THEN LET r == StageApply(m.f, ev)
         IN [ok |-> r.ok, val |-> r.val, exc |-> r.exc, calls |-> <<[f |-> m.f, arg |-> ev]>>]
    ELSE LET r == MapperCall(m.sub[1], ev)
         IN IF ~r.ok \/ r.val = PyNone THEN r
            ELSE LET n == MapperCall(m.sub[2], r.val)
                 IN [ok |-> n.ok,
                     val |-> IF ~n.ok THEN PyNone
                             ELSE IF m.ignore_result THEN r.val ELSE n.val,
                     exc |-> n.exc,
                     calls |-> r.calls \o n.calls]

\* m = Mapper(f)
MapperNew ==
    /\ mapper = PyNone
    /\ \E f \in StageSet :
          /\ mapper' = Fn(f)
          /\ stages' = <<[f |-> f, ignore_result |-> FALSE]>>
    /\ UNCHANGED <<event, result, calls, put_vars, regrouped_vars, event_vars, cli_vars>>

\* m = m.next(f, ignore_result), also written m + f and m | f
MapperAppend ==
    /\ mapper # PyNone
    /\ Len(stages) < MaxStages
    /\ \E f \in StageSet, ignore_result \in BOOLEAN :
          /\ mapper' = IF ignore_result THEN MapperOr(mapper, Fn(f))
                        ELSE MapperAdd(mapper, Fn(f))
          /\ stages' = Append(stages, [f |-> f, ignore_result |-> ignore_result])
    /\ event' = PyNone
    /\ result' = [ok |-> TRUE, val |-> PyNone]
    /\ calls' = <<>>
    /\ put_in' = PyNone
    /\ put_out' = PyNone
    /\ UNCHANGED <<regrouped_vars, event_vars, cli_vars>>

\* m(ev)
MapperApply ==
    /\ mapper # PyNone
    /\ \E ev \in EventSet :
          LET r == MapperCall(mapper, ev)
          IN /\ event' = ev
             /\ result' = [ok |-> r.ok, val |-> r.val]
             /\ calls' = r.calls
    /\ put_in' = PyNone
    /\ put_out' = PyNone
    /\ UNCHANGED <<mapper, stages, regrouped_vars, event_vars, cli_vars>>

\* arguments of Logger.put
PutSet ==
    {[level |-> 10, fmt |-> fmt, args |-> <<>>, kwargs |-> kwargs] :
        fmt \in {"first event", "second event"},
        kwargs \in {<<>>, <<<<"key", 42>>, <<"a", 1>>>>}}

\* faulty variant: the exception of the chain leaves put as it is
PutOutcome_Reraise(r) ==
    IF r.ok THEN [kind |-> "return", val |-> r.val, cause |-> ""]
    ELSE [kind |-> r.exc, val |-> PyNone, cause |-> ""]

\* how put ends after the chain ended with r: return, or raise PutError() from e
PutOutcome(r) ==
    IF r.ok THEN [kind |-> "return", val |-> r.val, cause |-> ""]
    ELSE [kind |-> "PutError", val |-> PyNone, cause |-> r.exc]

\* Logger(m).put(level, fmt, *args, **kwargs)
LoggerPut ==
    /\ mapper # PyNone
    /\ \E a \in PutSet :
          LET ev == EventNew(a.level, a.fmt, a.args, a.kwargs)
              r == MapperCall(mapper, ev)
          IN /\ put_in' = a
             /\ event' = ev
             /\ result' = [ok |-> r.ok, val |-> r.val]
             /\ calls' = r.calls
             /\ put_out' = PutOutcome(r)
    /\ UNCHANGED <<mapper, stages, regrouped_vars, event_vars, cli_vars>>

\* the stage functions and the operator of (a op b) op c and a op (b op c)
GroupInit ==
    /\ stages \in {<<[f |-> a, ignore_result |-> FALSE], [f |-> b, ignore_result |-> ig],
                     [f |-> c, ignore_result |-> ig]>> :
                        a \in StageSet, b \in StageSet, c \in StageSet, ig \in BOOLEAN}
    /\ mapper = PyNone
    /\ regrouped = PyNone

\* m = (Mapper(a) op b) op c
GroupLeft ==
    /\ mapper = PyNone
    /\ mapper' = IF stages[3].ignore_result
                  THEN MapperOr(MapperOr(Fn(stages[1].f), Fn(stages[2].f)), Fn(stages[3].f))
                  ELSE MapperAdd(MapperAdd(Fn(stages[1].f), Fn(stages[2].f)), Fn(stages[3].f))
    /\ UNCHANGED <<stages, event, result, calls, put_vars, regrouped_vars, event_vars, cli_vars>>

\* m = Mapper(a) op (Mapper(b) op c): the right operand is a Mapper, its .mapper is appended
GroupRight ==
    /\ regrouped = PyNone
    /\ regrouped' = IF stages[3].ignore_result
                     THEN MapperOr(Fn(stages[1].f), MapperOr(Fn(stages[2].f), Fn(stages[3].f)))
                     ELSE MapperAdd(Fn(stages[1].f), MapperAdd(Fn(stages[2].f), Fn(stages[3].f)))
    /\ UNCHANGED <<mapper, stages, event, result, calls, put_vars, regrouped_result,
                   regrouped_calls, event_vars, cli_vars>>

\* both groupings are called with the same event
GroupApply ==
    /\ mapper # PyNone
    /\ regrouped # PyNone
    /\ \E ev \in EventSet :
          LET l == MapperCall(mapper, ev)
              r == MapperCall(regrouped, ev)
          IN /\ event' = ev
             /\ result' = [ok |-> l.ok, val |-> l.val]
             /\ calls' = l.calls
             /\ regrouped_result' = [ok |-> r.ok, val |-> r.val]
             /\ regrouped_calls' = r.calls
    /\ UNCHANGED <<mapper, stages, put_vars, regrouped, event_vars, cli_vars>>

\* ev = Event.new(level, fmt, *args, **kwargs)
EventCreate ==
    /\ event = PyNone
    /\ \E level \in LevelSet, fmt \in FmtSet, args \in NewArgsSet,
          kwargs \in Dicts(KwargItems, MaxKwargs) :
          /\ new_in' = [level |-> level, fmt |-> fmt, args |-> args, kwargs |-> kwargs]
          /\ event' = EventNew(level, fmt, args, kwargs)
    /\ UNCHANGED <<mapper, stages, result, calls, put_vars, regrouped_vars, upd_in, updated,
                   cli_vars>>

\* ev.update(*args, **kwargs); ev is frozen and stays what it was
EventUpdateCall ==
    /\ event # PyNone
    /\ \E args \in UpdateArgsSet, kwargs \in Dicts(UpdateItems, MaxKwargs) :
          /\ upd_in' = [args |-> args, kwargs |-> kwargs]
          /\ updated' = EventUpdate(event, args, kwargs)
    /\ UNCHANGED <<mapper, stages, event, result, calls, put_vars, regrouped_vars, new_in,
                   cli_vars>>

\* ------------------------------------------------------ specifications
LoggerIdle ==
    /\ mapper = PyNone
    /\ stages = <<>>
    /\ event = PyNone
    /\ result = [ok |-> TRUE, val |-> PyNone]
    /\ calls = <<>>
    /\ put_in = PyNone
    /\ put_out = PyNone
    /\ regrouped = PyNone
    /\ regrouped_result = [ok |-> TRUE, val |-> PyNone]
    /\ regrouped_calls = <<>>
    /\ new_in = PyNone
    /\ upd_in = PyNone
    /\ updated = PyNone

Init ==
    /\ lambda_list \in RuleLists
    /\ init_list \in InitLists
    /\ last_lambda \in LastSet
    /\ globals = ModuleGlobals
    /\ globals_before = ModuleGlobals
    /\ run = 1
    /\ Entered
    /\ LoggerIdle

Next ==
    \/ NewMapperChain
    \/ ApplySymtableEnter
    \/ ReadLine
    \/ EndOfLines
    \/ LinesRaise
    \/ InnerStep
    \/ PrintResult
    \/ Last
    \/ ApplySymtableExit
    \/ MapLinesAgain

Spec == Init /\ [][Next]_vars

LoggerInit ==
    /\ lambda_list = <<>>
    /\ init_list = <<>>
    /\ last_lambda = NoLast
    /\ globals = ModuleGlobals
    /\ globals_before = ModuleGlobals
    /\ run = 1
    /\ Entered
    /\ LoggerIdle

LoggerNext ==
    \/ MapperNew
    \/ MapperAppend
    \/ MapperApply
    \/ LoggerPut

LoggerSpec == LoggerInit /\ [][LoggerNext]_vars

\* the cli at rest: map_lines entered with no rules, nothing consumed
CliIdle ==
    /\ lambda_list = <<>>
    /\ init_list = <<>>
    /\ last_lambda = NoLast
    /\ globals = ModuleGlobals
    /\ globals_before = ModuleGlobals
    /\ run = 1
    /\ Entered

GroupSpecInit ==
    /\ CliIdle
    /\ GroupInit
    /\ event = PyNone
    /\ result = [ok |-> TRUE, val |-> PyNone]
    /\ calls = <<>>
    /\ put_in = PyNone
    /\ put_out = PyNone
    /\ regrouped_result = [ok |-> TRUE, val |-> PyNone]
    /\ regrouped_calls = <<>>
    /\ new_in = PyNone
    /\ upd_in = PyNone
    /\ updated = PyNone

GroupNext ==
    \/ GroupLeft
    \/ GroupRight
    \/ GroupApply

GroupSpec == GroupSpecInit /\ [][GroupNext]_vars

EventInit ==
    /\ CliIdle
    /\ LoggerIdle

EventNext ==
    \/ EventCreate
    \/ EventUpdateCall

EventSpec == EventInit /\ [][EventNext]_vars

\* ------------------------------------------------- reading the run's logs
\* the positions of a log whose entries are about input line k
About(log, k) == {q \in 1..Len(log) : log[q].line = k}

\* line k is still inside inner: its chain has neither stopped nor returned
InChain(k) == k = Len(lines) /\ pc = "inner"

\* after evaluation p the chain of its line went on with the value v: the next
\* rule is evaluated with v, or, after the last rule, v is what gets printed
Carried(p, v) ==
    LET k == evals[p].line
        r == evals[p].rule
    IN IF r + 1 < Len(lambda_list)
       THEN IF p < Len(evals)
            THEN evals[p + 1].line = k /\ evals[p + 1].rule = r + 1 /\ evals[p + 1].arg = v
            ELSE InChain(k) /\ i = r + 1 /\ x = v
       ELSE \/ /\ Cardinality(About(output, k)) = 1
               /\ \A q \in About(output, k) : output[q].text = str(v) \o <<"\n">>
            \/ p = Len(evals) /\ InChain(k) /\ i = r + 1 /\ x = v
            \/ p = Len(evals) /\ pc = "raised" /\ exc = "output"

\* evaluation p ended the chain of its line: no later rule, no output
Stopped(p) ==
    LET k == evals[p].line
    IN /\ \A q \in About(evals, k) : q <= p
       /\ About(output, k) = {}
       /\ ~InChain(k)

\* C1: when rule i raises on a line, on_exception is called exactly once for
\* that line, with an error naming rule i and the value rule i received; the
\* line prints nothing and no later rule is evaluated for it.
C1_Reported ==
    \A p \in 1..Len(evals) :
        ~evals[p].ok =>
            LET k == evals[p].line
            IN /\ Stopped(p)
               /\ Cardinality(About(errors, k)) = 1
               /\ \A q \in About(errors, k) :
                     /\ errors[q].exc.label = <<"lambda[">> \o Digits(evals[p].rule) \o <<"]">>
                     /\ errors[q].exc.args = <<evals[p].arg>>

\* C1: ... and unless on_exception itself raises, the run goes back to the loop
\* head, where the next line is read and evaluated from rule 0 with its own value.
C1_Continues ==
    /\ (pc = "inner" /\ pc' # "inner" /\ Len(errors') > Len(errors))
          => (pc' = "for" \/ (pc' = "raised" /\ exc' = "on_exception"))
    /\ (pc = "for" /\ pc' = "inner")
          => /\ Len(lines') = Len(lines) + 1
             /\ i' = 0
             /\ x'.t = "str"
             /\ \E n \in 0..Len(lines'[Len(lines')]) :
                   SubSeq(lines'[Len(lines')], 1, n) = x'.s

C2_BoolNoneFilter ==
    \A p \in 1..Len(evals) :
        evals[p].ok =>
            /\ evals[p].val \in {PyNone, PyFalse}
                  => Stopped(p) /\ About(errors, evals[p].line) = {}
            /\ evals[p].val = PyTrue => Carried(p, evals[p].arg)

\* C2 witness: one line was dropped by False, another passed a True rule
\* followed by a second rule and was printed
C2_Witness ==
    /\ \E p \in 1..Len(evals) : evals[p].ok /\ evals[p].val = PyFalse
    /\ \E p \in 1..Len(evals) :
          /\ evals[p].ok /\ evals[p].val = PyTrue
          /\ evals[p].rule = 0
          /\ Len(lambda_list) = 2
          /\ About(output, evals[p].line) # {}

\* a result that is neither None, False nor True
IsValue(p) == evals[p].ok /\ evals[p].val \notin {PyNone, PyFalse, PyTrue}

\* C3 as claimed: x becomes the string form of the result, so every rule is
\* evaluated with a string.
C3_NextGetsString ==
    /\ \A p \in 1..Len(evals) : IsValue(p) => Carried(p, PyStr(str(evals[p].val)))
    /\ \A p \in 1..Len(evals) : evals[p].arg.t = "str"

\* C3 amended: x becomes the result itself, unconverted; the next rule is
\* evaluated with exactly the value rule i returned, and only print() takes
\* the string form, after the last rule.
C3_NextGetsValue ==
    \A p \in 1..Len(evals) : IsValue(p) => Carried(p, evals[p].val)

\* C3 witness: a rule returned a number and the next rule received that number
C3_Witness ==
    \E p \in 1..(Len(evals) - 1) :
        /\ IsValue(p)
        /\ evals[p].val.t = "int"
        /\ evals[p + 1].line = evals[p].line
        /\ evals[p + 1].arg = evals[p].val

\* what removing only the line terminator leaves of a line
StripNewline(s) ==
    IF s # <<>> /\ s[Len(s)] = "\n" THEN SubSeq(s, 1, Len(s) - 1) ELSE s

\* C4: with no rule and no deferred rule a finished run has printed every
\* input line, in order, unchanged but for its terminator.
C4_EchoUnchanged ==
    (lambda_list = <<>> /\ last_lambda = NoLast /\ pc = "returned")
        => /\ Len(output) = Len(lines)
           /\ \A k \in 1..Len(lines) :
                 /\ output[k].line = k
                 /\ output[k].text = StripNewline(lines[k]) \o <<"\n">>

\* the characters the evaluations 1..n of this run have added to the counter c
RECURSIVE Counted(_)
Counted(n) ==
    IF n = 0 THEN 0
    ELSE Counted(n - 1)
         + IF lambda_list[evals[n].rule + 1] = "f'{cnt(len(x))} {x}'" /\ evals[n].ok
           THEN Len(evals[n].arg.s) ELSE 0

\* the run is past the try block of the deferred rule and left it normally
AfterLast == pc \in {"exit", "returned"}

\* C5: a configured deferred rule is evaluated once, after the last line, and
\* sees the counter as the per-line rules left it; None prints nothing, any
\* other result is printed in string form as the last output line.
C5_DeferredOnceAtEnd ==
    last_lambda # NoLast =>
        /\ last_calls <= 1
        /\ pc \in {"new_mapper_chain", "apply_symtable", "for", "inner", "last"}
              => last_calls = 0 /\ About(output, 0) = {}
        /\ AfterLast => last_calls = 1
        /\ About(output, 0) \subseteq {Len(output)}
        /\ (AfterLast /\ About(errors, 0) = {}) =>
              CASE last_lambda = "None" -> About(output, 0) = {}
                [] last_lambda = "c" ->
                      /\ About(output, 0) # {}
                      /\ output[Len(output)].text = Digits(Counted(Len(evals))) \o <<"\n">>
                [] OTHER ->
                      /\ About(output, 0) # {}
                      /\ output[Len(output)].text
                            = <<"n", "=">> \o Digits(Counted(Len(evals))) \o <<"\n">>

\* C5 witness: the deferred rule printed a counter that two lines added to
C5_Witness ==
    /\ AfterLast
    /\ last_lambda = "f'n={c}'"
    /\ About(output, 0) # {}
    /\ Cardinality({p \in 1..Len(evals) : evals[p].ok /\ Len(evals[p].arg.s) > 0
                        /\ lambda_list[evals[p].rule + 1] = "f'{cnt(len(x))} {x}'"}) >= 2

\* on_exception has been called with the error of the deferred rule
LastReported == \E q \in About(errors, 0) : errors[q].exc.label = <<"lambda[last]">>

\* C6: after the deferred rule raised, on_exception has been called once with
\* its error, nothing was printed for it, and unless on_exception raised the
\* run returns with the installed names removed.
C6_Reported ==
    LastReported =>
        /\ About(errors, 0) = {Len(errors)}
        /\ About(output, 0) = {}
        /\ AfterLast \/ (pc = "raised" /\ exc = "on_exception")
        /\ pc = "returned" =>
              /\ DOMAIN globals = DOMAIN globals_before
              /\ DOMAIN globals \cap DOMAIN symtable = {}

\* C6: the step in which the deferred rule raises calls on_exception and
\* leaves the output as it was; the step after it returns from map_lines.
C6_Step ==
    /\ (pc = "last" /\ last_lambda # NoLast /\ ~EvalLast(last_lambda, globals).ok)
          => /\ LastReported'
             /\ Len(errors') = Len(errors) + 1
             /\ output' = output
    /\ (pc = "exit") => (pc' = "returned" /\ output' = output)

\* C6: a raising deferred rule is reported once and costs no output
C6_DeferredErrorIsolated == [](C6_Reported) /\ [][C6_Step]_vars

\* C6 witness: the deferred rule raised after per-line output, the run returned
C6_Witness ==
    /\ LastReported
    /\ pc = "returned"
    /\ symtable # EmptyTable
    /\ Len(output) > 0

\* an init statement defines a name that the namespace held before the run
Collides == \E n \in 1..Len(init_list) : InitName(init_list[n]) \in DOMAIN globals_before

\* C7: when an init statement defines a name already present, the run fails
\* before the loop: no line read, no rule evaluated, nothing printed, and the
\* namespace is what it was.
C7_CollisionFails ==
    Collides =>
        /\ pc \in {"new_mapper_chain", "apply_symtable", "raised"}
        /\ pc = "raised" => exc = "cannot update global symtable keys"
        /\ lines = <<>> /\ evals = <<>> /\ output = <<>> /\ errors = <<>>
        /\ last_calls = 0
        /\ globals = globals_before

\* C7 witness: a first run failed on `sys = 0` next to `c = 0`
C7_Witness ==
    /\ Collides
    /\ pc = "raised"
    /\ run = 1
    /\ Len(init_list) = 2

\* C8 as claimed: however a run ends, the namespace has the names it had before
\* the run, and a run after it does not fail on a name the init statements
\* did not collide with in the first place.
C8_NamespaceRestored ==
    /\ pc \in {"returned", "raised"} => DOMAIN globals = DOMAIN globals_before
    /\ (pc = "raised" /\ exc = "cannot update global symtable keys")
          => \E n \in 1..Len(init_list) : InitName(init_list[n]) \in DOMAIN ModuleGlobals

\* ---------------------------------------------------------- logger claims
\* m has been called since it was last composed
Called == event # PyNone

\* what stage j of m did with the argument it was called with
Did(j) == StageApply(stages[j].f, calls[j].arg)

\* C9: in a mapper built with next/+ only, stage 0 receives the input event,
\* each later stage receives what the stage before it returned, no stage after
\* one that returned None is invoked and the result is then None; if none
\* returns None the result is what the last stage returned.
C9_ThenChain ==
    (Called /\ \A j \in 1..Len(stages) : ~stages[j].ignore_result) =>
        /\ Len(calls) \in 1..Len(stages)
        /\ calls[1].arg = event
        /\ \A j \in 1..Len(calls) : calls[j].f = stages[j].f
        /\ \A j \in 1..(Len(calls) - 1) :
              Did(j).ok /\ Did(j).val # PyNone /\ calls[j + 1].arg = Did(j).val
        /\ LET last == Did(Len(calls))
           IN IF ~last.ok THEN ~result.ok
              ELSE IF last.val = PyNone THEN result = [ok |-> TRUE, val |-> PyNone]
              ELSE Len(calls) = Len(stages) /\ result = [ok |-> TRUE, val |-> last.val]

\* C9 witness: the second of three stages returned None, the third was not invoked
C9_Witness ==
    /\ Called
    /\ Len(stages) = 3
    /\ \A j \in 1..3 : ~stages[j].ignore_result
    /\ Len(calls) = 2
    /\ result = [ok |-> TRUE, val |-> PyNone]
    /\ calls[2].arg # event

\* what the first n stages of m make of ev, and the invocations they make
RECURSIVE Prefix(_, _)
Prefix(n, ev) ==
    IF n = 0 THEN [ok |-> TRUE, val |-> ev, exc |-> "", calls |-> <<>>]
    ELSE LET m == Prefix(n - 1, ev)
         IN IF ~m.ok \/ m.val = PyNone THEN m
            ELSE LET r == StageApply(stages[n].f, m.val)
                     call == [f |-> stages[n].f, arg |-> m.val]
                 IN [ok |-> r.ok,
                     val |-> IF ~r.ok THEN PyNone
                             ELSE IF stages[n].ignore_result THEN m.val ELSE r.val,
                     exc |-> r.exc,
                     calls |-> Append(m.calls, call)]

\* C10: for m | nxt, if m returns None then nxt is not invoked and the result
\* is None; otherwise nxt is invoked once, with m's result, and the result is
\* m's result whatever nxt returns.
C10_IgnoreResult ==
    (Called /\ Len(stages) >= 2 /\ stages[Len(stages)].ignore_result) =>
        LET m == Prefix(Len(stages) - 1, event)
            nxt == stages[Len(stages)].f
        IN /\ (m.ok /\ m.val = PyNone)
                 => result = [ok |-> TRUE, val |-> PyNone] /\ calls = m.calls
           /\ (m.ok /\ m.val # PyNone)
                 => /\ calls = Append(m.calls, [f |-> nxt, arg |-> m.val])
                    /\ StageApply(nxt, m.val).ok => result = [ok |-> TRUE, val |-> m.val]

\* C10 witness: nxt returned None for m's result, and m's result was returned
C10_Witness ==
    /\ Called
    /\ Len(stages) = 2
    /\ stages[2].ignore_result
    /\ stages[2].f = "ret None"
    /\ Len(calls) = 2
    /\ result.ok /\ result.val # PyNone /\ result.val # event

\* both groupings have been called
Grouped == mapper # PyNone /\ regrouped # PyNone /\ event # PyNone

\* C11 as claimed: (a op b) op c and a op (b op c) return the same and invoke
\* a, b and c alike, for + and for |.
C11_Associative ==
    Grouped => result = regrouped_result /\ calls = regrouped_calls

\* the first n entries of a call log, or all of it if it is shorter
Upto(log, n) == SubSeq(log, 1, IF Len(log) < n THEN Len(log) ELSE n)

\* C11 amended: + is associative in result and invocations.  With | both
\* groupings invoke a and b alike and return the same unless one of them
\* raises, but c is invoked with a's result in (a | b) | c and with b's result,
\* and not at all when b returns None, in a | (b | c).
C11_AddAssociative ==
    Grouped =>
        IF ~stages[3].ignore_result
        THEN result = regrouped_result /\ calls = regrouped_calls
        ELSE /\ Upto(calls, 2) = Upto(regrouped_calls, 2)
             /\ Len(regrouped_calls) <= Len(calls)
             /\ Len(calls) = 3 => calls[3].arg = calls[2].arg
             /\ Len(regrouped_calls) = 3
                   => regrouped_calls[3].arg = StageApply(stages[2].f, calls[2].arg).val
             /\ (Len(calls) = 3 /\ StageApply(stages[2].f, calls[2].arg).val = PyNone)
                   => Len(regrouped_calls) = 2
             /\ (result.ok /\ regrouped_result.ok) => result = regrouped_result

\* C11 witness: three stages composed with + ran in both groupings, the middle
\* one changing the event
C11_Witness ==
    /\ Grouped
    /\ ~stages[3].ignore_result
    /\ Len(calls) = 3 /\ Len(regrouped_calls) = 3
    /\ calls[3].arg # calls[2].arg
    /\ result.ok /\ result.val # PyNone

\* put has been called
Put == put_in # PyNone

\* d is in sorted key order, no key twice
IsSorted(d) == \A n \in 1..(Len(d) - 1) : KeyRank(d[n][1]) < KeyRank(d[n + 1][1])

\* d and e hold the same items
SameItems(d, e) == {d[n] : n \in 1..Len(d)} = {e[n] : n \in 1..Len(e)}

\* C12: put hands the event built from its arguments to the chain and returns
\* what the chain returns, None included; if a stage raises, put raises
\* PutError whose cause is that exception.
C12_PutWraps ==
    Put =>
        /\ event.level = put_in.level /\ event.fmt = put_in.fmt /\ event.args = put_in.args
        /\ SameItems(event.kwargs, put_in.kwargs) /\ IsSorted(event.kwargs)
        /\ calls[1].arg = event
        /\ LET chain == Prefix(Len(stages), event)
           IN IF chain.ok
              THEN put_out = [kind |-> "return", val |-> chain.val, cause |-> ""]
              ELSE /\ put_out.kind = "PutError"
                   /\ put_out.cause = chain.exc
                   /\ put_out.cause \in {"Exception", "ValueError"}

\* C12 witness: the second stage raised ValueError and put raised PutError
C12_Witness ==
    /\ Put
    /\ Len(calls) = 2
    /\ put_out.kind = "PutError"
    /\ put_out.cause = "ValueError"
    /\ put_in.kwargs # <<>>

\* update has been called
Updated == updated # PyNone

\* C13: update leaves the event as Event.new built it and returns an event
\* whose args are the old args followed by the new ones, whose kwargs are the
\* merge of old and new, the new value winning, in sorted key order, and whose
\* level and fmt are the supplied ones, or the old ones if none is supplied;
\* Event.new builds the same event from the same keywords in any order.
C13_Update ==
    Updated =>
        LET more == upd_in.kwargs
        IN /\ event.level = new_in.level /\ event.fmt = new_in.fmt /\ event.args = new_in.args
           /\ SameItems(event.kwargs, new_in.kwargs) /\ IsSorted(event.kwargs)
           /\ updated.args = event.args \o upd_in.args
           /\ Keys(updated.kwargs) = Keys(event.kwargs) \cup (Keys(more) \ {"level", "fmt"})
           /\ \A k \in Keys(updated.kwargs) :
                 Get(updated.kwargs, k) = IF Has(more, k) THEN Get(more, k)
                                          ELSE Get(event.kwargs, k)
           /\ IsSorted(updated.kwargs)
           /\ updated.level = IF Has(more, "level") THEN Get(more, "level") ELSE event.level
           /\ updated.fmt = IF Has(more, "fmt") THEN Get(more, "fmt") ELSE event.fmt
           /\ \A d \in Dicts(KwargItems, MaxKwargs) :
                 SameItems(d, new_in.kwargs)
                    => EventNew(new_in.level, new_in.fmt, new_in.args, d) = event

\* C13 witness: an event built with its keywords out of order was updated with
\* a new value for one of them and a new level
C13_Witness ==
    /\ Updated
    /\ Len(new_in.kwargs) = 2 /\ new_in.kwargs[1][1] = "key"
    /\ Has(upd_in.kwargs, "level")
    /\ \E k \in Keys(event.kwargs) \cap Keys(upd_in.kwargs) :
          Get(event.kwargs, k) # Get(upd_in.kwargs, k)
    /\ upd_in.args # <<>> /\ event.args # <<>>

\* C14: rules are evaluated line by line in input order, the rules of a line
\* in chain order and only for the line read last; a line prints at most once
\* and never both prints and reports an error; the printed lines follow the
\* order of the input lines, the deferred output last.
C14_LineByLine ==
    /\ \A p \in 1..Len(evals) : evals[p].line \in 1..Len(lines)
    /\ \A p \in 1..(Len(evals) - 1) :
          \/ evals[p].line < evals[p + 1].line /\ evals[p + 1].rule = 0
          \/ evals[p].line = evals[p + 1].line /\ evals[p + 1].rule = evals[p].rule + 1
    /\ (pc = "inner" /\ i > 0) => evals[Len(evals)].line = Len(lines)
    /\ \A k \in 1..Len(lines) :
          /\ Cardinality(About(output, k)) <= 1
          /\ About(output, k) = {} \/ About(errors, k) = {}
    /\ \A q \in 1..(Len(output) - 1) :
          /\ output[q].line # 0
          /\ output[q + 1].line = 0 \/ output[q].line < output[q + 1].line

\* C14 witness: two lines went through two rules each and were printed in order
C14_Witness ==
    /\ Len(lambda_list) = 2
    /\ Len(evals) = 4
    /\ Len(output) >= 2
    /\ output[1].line = 1 /\ output[2].line = 2

====
